---------------------------- MODULE Spec2Model ----------------------------
(***************************************************************************)
(* Model of src/btc_option_chain.py: the Black-Scholes pricing statics,    *)
(* generate_option_chain, style_option_chain and the control flow of       *)
(* main() around them.                                                     *)
(*                                                                         *)
(* Numbers.  A spot price is a decimal m * 10^-e, kept as the record       *)
(* [m, e]; strikes of a chain built on it are integers in units of         *)
(* 10^-(e+3), in which spot * 0.025 is exact.  Dimensionless quantities    *)
(* (volatility, rate, T, d1, d2, probabilities) are fixed-point integers   *)
(* at scale ONE.  A float64 is a record: a finite fixed-point value, NaN,  *)
(* or +/-Inf, with numpy's rules for division by zero.                     *)
(***************************************************************************)
EXTENDS Integers, Sequences, FiniteSets, TLC

VARIABLES
    pc,             \* control location of the running call
    caller,         \* "main": generate_option_chain called from main(); "direct": called on its own
    vol_mode,       \* main: the sidebar radio
    hist,           \* main: what asset.history(period) gave calculate_historical_volatility
    iv,             \* volatility handed to generate_option_chain (a float64)
    days_to_expiry, \* integer days
    risk_free_rate, \* fixed-point at scale ONE
    num_strikes,    \* integer
    spot_price,     \* [m, e], or None
    fetch_failed,   \* main: get_crypto_price returned (None, None, None)
    strikes,        \* generate_option_chain: the list built by the first loop
    round_nd,       \* generate_option_chain: ndigits given to round()
    chain_data,     \* generate_option_chain: the rows appended so far
    option_chain,   \* the returned table (a sequence of rows), or NoChain
    cdf_called,     \* norm.cdf / norm.pdf has been evaluated
    price_fmt,      \* main: decimals of the headline price format
    currency_fmt    \* style_option_chain: decimals of the table's currency format

vars == <<pc, caller, vol_mode, hist, iv, days_to_expiry, risk_free_rate,
          num_strikes, spot_price, fetch_failed, strikes, round_nd,
          chain_data, option_chain, cdf_called, price_fmt, currency_fmt>>

---------------------------------------------------------------------------
(* Bounds of the model *)

\* generate_option_chain called directly: num_strikes ranges over 1..MaxStrikes
MaxStrikes == 2
\* main: num_strikes ranges over the first StrikeRange+1 values of its slider
StrikeRange == 1
\* calculate_historical_volatility: the history has at most MaxHist rows
MaxHist == 3

---------------------------------------------------------------------------
(* Arithmetic *)

RECURSIVE Pow10(_)
Pow10(n) == IF n <= 0 THEN 1 ELSE 10 * Pow10(n - 1)

\* scale of the fixed-point numbers
ONE == Pow10(4)

Abs(x) == IF x < 0 THEN -x ELSE x

\* integer division truncating toward zero
SDiv(a, b) == IF (a >= 0) = (b > 0) THEN Abs(a) \div Abs(b) ELSE -(Abs(a) \div Abs(b))

RECURSIVE ISqrtB(_, _, _)
ISqrtB(x, lo, hi) ==
    IF lo >= hi THEN lo
    ELSE LET mid == (lo + hi + 1) \div 2
         IN  IF mid * mid <= x THEN ISqrtB(x, mid, hi) ELSE ISqrtB(x, lo, mid - 1)

\* floor of the square root, x < 2^31
ISqrt(x) == ISqrtB(x, 0, 46340)

\* np.sqrt of a fixed-point value x >= 0
Sqrt(x) == ISqrt(x * ONE)

\* np.log of a fixed-point ratio y > 0 close to 1: 2 atanh((y-1)/(y+1))
Ln(y) ==
    LET z  == SDiv((y - ONE) * ONE, y + ONE)
        z2 == SDiv(z * z, ONE)
        z3 == SDiv(z2 * z, ONE)
        z5 == SDiv(z3 * z2, ONE)
    IN  2 * (z + SDiv(z3, 3) + SDiv(z5, 5))

\* np.exp(-x) of a fixed-point x in [0, 1]
ExpNeg(x) ==
    LET x2 == SDiv(x * x, ONE)
        x3 == SDiv(x2 * x, ONE)
    IN  ONE - x + SDiv(x2, 2) - SDiv(x3, 6)

---------------------------------------------------------------------------
(* float64 values *)

Fin(v) == [k |-> "fin", v |-> v]
NaN    == [k |-> "nan", v |-> 0]
PInf   == [k |-> "inf", v |-> 1]
NInf   == [k |-> "inf", v |-> -1]

IsFinite(x) == x.k = "fin"
IsNaN(x)    == x.k = "nan"
Sign(x)     == IF x.v > 0 THEN 1 ELSE IF x.v < 0 THEN -1 ELSE 0

FNeg(a) == [k |-> a.k, v |-> -a.v]

FAdd(a, b) ==
    IF IsNaN(a) \/ IsNaN(b) THEN NaN
    ELSE IF a.k = "inf" /\ b.k = "inf" THEN (IF a.v = b.v THEN a ELSE NaN)
    ELSE IF a.k = "inf" THEN a
    ELSE IF b.k = "inf" THEN b
    ELSE Fin(a.v + b.v)

FSub(a, b) == FAdd(a, FNeg(b))

FMul(a, b) ==
    IF IsNaN(a) \/ IsNaN(b) THEN NaN
    ELSE IF a.k = "inf" \/ b.k = "inf"
         THEN (IF Sign(a) * Sign(b) = 0 THEN NaN
               ELSE IF Sign(a) * Sign(b) > 0 THEN PInf ELSE NInf)
    ELSE Fin(SDiv(a.v * b.v, ONE))

\* numpy scalar division: x/0 is +/-Inf, 0/0 is NaN, no exception
FDiv(a, b) ==
    IF IsNaN(a) \/ IsNaN(b) THEN NaN
    ELSE IF a.k = "inf" /\ b.k = "inf" THEN NaN
    ELSE IF a.k = "inf" THEN (IF Sign(b) >= 0 THEN a ELSE FNeg(a))
    ELSE IF b.k = "inf" THEN Fin(0)
    ELSE IF b.v = 0
         THEN (IF a.v = 0 THEN NaN ELSE IF a.v > 0 THEN PInf ELSE NInf)
    ELSE Fin(SDiv(a.v * ONE, b.v))

FAbs(a) == [k |-> a.k, v |-> Abs(a.v)]

\* a float64 times a positive integer
FTimes(a, n) == IF IsFinite(a) THEN Fin(a.v * n) ELSE a

---------------------------------------------------------------------------
(* scipy.stats.norm *)

\* norm.cdf at 0.0, 0.5, ..., 4.0
CdfKnots == <<5000, 6915, 8413, 9332, 9772, 9938, 9987, 9998, 10000>>
\* norm.pdf at 0.0, 0.5, ..., 4.0
PdfKnots == <<3989, 3521, 2420, 1295, 540, 175, 44, 9, 1>>

\* linear interpolation in a table of knots spaced ONE/2 apart, x >= 0
Interp(knots, x, beyond) ==
    LET h == ONE \div 2
        i == x \div h
    IN  IF i + 2 > Len(knots) THEN beyond
        ELSE knots[i + 1] + SDiv((knots[i + 2] - knots[i + 1]) * (x - i * h), h)

NormCdf(d) ==
    IF IsNaN(d) THEN NaN
    ELSE IF d.k = "inf" THEN (IF d.v > 0 THEN Fin(ONE) ELSE Fin(0))
    ELSE IF d.v < 0 THEN Fin(ONE - Interp(CdfKnots, -d.v, ONE))
    ELSE Fin(Interp(CdfKnots, d.v, ONE))

NormPdf(d) ==
    IF IsNaN(d) THEN NaN
    ELSE IF d.k = "inf" THEN Fin(0)
    ELSE Fin(Interp(PdfKnots, Abs(d.v), 0))

---------------------------------------------------------------------------
(* class BlackScholes.  S and K are integers in the same unit; T and r are *)
(* fixed-point; sigma is a float64.                                        *)

\* x rescaled by the power of ten that brings ref into [10^4, 10^5)
RECURSIVE Reduce(_, _)
Reduce(x, ref) ==
    IF ref >= Pow10(5) THEN Reduce(x \div 10, ref \div 10)
    ELSE IF ref < Pow10(4) THEN Reduce(x * 10, ref * 10)
    ELSE x

\* S / K
Ratio(S, K) == (Reduce(S, S) * ONE) \div Reduce(K, S)

\* sigma * np.sqrt(T)
SigmaSqrtT(T, sigma) == FMul(sigma, Fin(Sqrt(T)))

d1(S, K, T, r, sigma) ==
    FDiv(FAdd(Fin(Ln(Ratio(S, K))),
              FMul(FAdd(Fin(r), FMul(Fin(ONE \div 2), FMul(sigma, sigma))), Fin(T))),
         SigmaSqrtT(T, sigma))

d2(S, K, T, r, sigma) == FSub(d1(S, K, T, r, sigma), SigmaSqrtT(T, sigma))

\* K * np.exp(-r * T), in the unit of Reduce
Discounted(S, K, T, r) == FMul(Fin(Reduce(K, S)), Fin(ExpNeg(SDiv(r * T, ONE))))

call_price(S, K, T, r, sigma) ==
    FSub(FMul(Fin(Reduce(S, S)), NormCdf(d1(S, K, T, r, sigma))),
         FMul(Discounted(S, K, T, r), NormCdf(d2(S, K, T, r, sigma))))

put_price(S, K, T, r, sigma) ==
    FSub(FMul(Discounted(S, K, T, r), NormCdf(FNeg(d2(S, K, T, r, sigma)))),
         FMul(Fin(Reduce(S, S)), NormCdf(FNeg(d1(S, K, T, r, sigma)))))

call_delta(S, K, T, r, sigma) == NormCdf(d1(S, K, T, r, sigma))

PutDeltaOfD2(S, K, T, r, sigma) == FSub(NormCdf(d2(S, K, T, r, sigma)), Fin(ONE))
put_delta(S, K, T, r, sigma) == FSub(NormCdf(d1(S, K, T, r, sigma)), Fin(ONE))

gamma(S, K, T, r, sigma) ==
    FDiv(NormPdf(d1(S, K, T, r, sigma)),
         FMul(FMul(Fin(Reduce(S, S)), sigma), Fin(Sqrt(T))))

---------------------------------------------------------------------------
(* Spot prices and strikes *)

\* Python's None, in the shape of a spot price
None == [m |-> -1, e |-> 0]
\* no table returned
NoChain == <<[none |-> TRUE]>>

Spot(m, e) == [m |-> m, e |-> e]

\* decimals of the strike unit of a chain built on sp
UnitDecimals(sp) == sp.e + 3
\* sp in strike units
SpotUnits(sp) == sp.m * 1000
\* spot_price < 10 and spot_price > 10
SpotBelow10(sp) == sp.m < 10 * Pow10(sp.e)
SpotAbove10(sp) == sp.m > 10 * Pow10(sp.e)

\* round(x, nd) of x >= 0 given in units of 10^-ud; the result in the same units
PyRound(x, nd, ud) ==
    IF ud <= nd THEN x
    ELSE LET q   == Pow10(ud - nd)
             lo  == x \div q
             rem == x - lo * q
         IN  IF 2 * rem < q THEN lo * q
             ELSE IF 2 * rem > q THEN (lo + 1) * q
             ELSE IF lo % 2 = 0 THEN lo * q ELSE (lo + 1) * q

\* strike_spacing = spot_price * 0.025, in strike units
StrikeSpacingTwoPercent(sp) == sp.m * 20
strike_spacing(sp) == sp.m * 25

\* ndigits of the rounding of the strikes
RoundDigits(sp) == IF SpotBelow10(sp) THEN 4 ELSE 2

\* the strikes list after the loop over range(-num_strikes, num_strikes + 1)
BuildStrikeList(sp, n) ==
    IF n < 0 THEN << >>
    ELSE [j \in 1..(2 * n + 1) |->
            PyRound(SpotUnits(sp) + (j - n - 1) * strike_spacing(sp),
                    RoundDigits(sp), UnitDecimals(sp))]

\* T = days_to_expiry / 365.0
DaysPerYear == 365
TimeToExpiry(days) == (days * ONE) \div DaysPerYear

\* abs(delta) * 100
ProbITM(delta) == FTimes(FAbs(delta), 100)

\* "ITM_Call": spot_price > K and "ITM_Put": spot_price < K
ItmCallGe(S, K) == S >= K
ItmCall(S, K) == S > K
ItmPut(S, K) == S < K

\* one dict appended to chain_data
ChainRow(sp, K, T, r, sigma) ==
    LET S == SpotUnits(sp)
    IN  [STRIKE     |-> K,
         Call_Price |-> call_price(S, K, T, r, sigma),
         Call_Delta |-> call_delta(S, K, T, r, sigma),
         Call_Prob  |-> ProbITM(call_delta(S, K, T, r, sigma)),
         Put_Price  |-> put_price(S, K, T, r, sigma),
         Put_Delta  |-> put_delta(S, K, T, r, sigma),
         Put_Prob   |-> ProbITM(put_delta(S, K, T, r, sigma)),
         Gamma      |-> gamma(S, K, T, r, sigma),
         ITM_Call   |-> ItmCall(S, K),
         ITM_Put    |-> ItmPut(S, K)]

---------------------------------------------------------------------------
(* Yahoo Finance *)

\* default volatility, 0.65
DefaultVol == 6500

RECURSIVE SumSeq(_)
SumSeq(xs) == IF xs = << >> THEN 0 ELSE Head(xs) + SumSeq(Tail(xs))

\* np.log(close / close.shift(1)) without its leading NaN
LogReturns(closes) ==
    [i \in 1..(Len(closes) - 1) |-> Ln((closes[i + 1] * ONE) \div closes[i])]

\* pandas Series.std(): sample standard deviation, NaN below two values
SeriesStd(xs) ==
    IF Len(xs) < 2 THEN NaN
    ELSE LET mean == SDiv(SumSeq(xs), Len(xs))
             sq   == [i \in 1..Len(xs) |-> (xs[i] - mean) * (xs[i] - mean)]
         IN  Fin(ISqrt(SumSeq(sq) \div (Len(xs) - 1)))

\* np.sqrt(365)
SqrtDaysPerYear == ISqrt(DaysPerYear * ONE) * 100

\* what asset.history(period=...) can give: an exception, or a frame of closes
ClosePrices == {100, 105}
HistOutcomes ==
    {[kind |-> "exception", closes |-> << >>]} \cup
    {[kind |-> "frame", closes |-> c] :
        c \in UNION {[1..n -> ClosePrices] : n \in 0..MaxHist}}
NoHist == [kind |-> "unused", closes |-> << >>]

calculate_historical_volatility(h) ==
    IF h.kind = "exception" THEN Fin(DefaultVol)
    ELSE IF h.closes = << >> THEN Fin(DefaultVol)
    ELSE FMul(SeriesStd(LogReturns(h.closes)), Fin(SqrtDaysPerYear))

\* spot prices the source may quote in main
MainSpots == {Spot(50000, 0), Spot(15, 1), Spot(10, 0), Spot(1234, 2)}
PriceOutcomes ==
    {[kind |-> "exception", price |-> None], [kind |-> "empty", price |-> None]} \cup
    {[kind |-> "ok", price |-> p] : p \in MainSpots}

\* the current_price get_crypto_price returns
get_crypto_price(o) ==
    IF o.kind = "exception" THEN None
    ELSE IF o.kind = "empty" THEN None
    ELSE o.price

---------------------------------------------------------------------------
(* generate_option_chain *)

\* first loop: the strikes list
BuildStrikes ==
    /\ pc = "gen_strikes"
    /\ strikes' = BuildStrikeList(spot_price, num_strikes)
    /\ round_nd' = RoundDigits(spot_price)
    /\ chain_data' = << >>
    /\ pc' = "gen_rows"
    /\ UNCHANGED <<caller, vol_mode, hist, iv, days_to_expiry, risk_free_rate,
                   num_strikes, spot_price, fetch_failed, option_chain,
                   cdf_called, price_fmt, currency_fmt>>

\* second loop, one strike: price both sides and append the row
PriceRow ==
    /\ pc = "gen_rows"
    /\ Len(chain_data) < Len(strikes)
    /\ chain_data' = Append(chain_data,
                            ChainRow(spot_price, strikes[Len(chain_data) + 1],
                                     TimeToExpiry(days_to_expiry), risk_free_rate, iv))
    /\ cdf_called' = TRUE
    /\ UNCHANGED <<pc, caller, vol_mode, hist, iv, days_to_expiry, risk_free_rate,
                   num_strikes, spot_price, fetch_failed, strikes, round_nd,
                   option_chain, price_fmt, currency_fmt>>

\* df = pd.DataFrame(chain_data); return df
ReturnChain ==
    /\ pc = "gen_rows"
    /\ Len(chain_data) = Len(strikes)
    /\ option_chain' = chain_data
    /\ pc' = IF caller = "main" THEN "style" ELSE "returned"
    /\ UNCHANGED <<caller, vol_mode, hist, iv, days_to_expiry, risk_free_rate,
                   num_strikes, spot_price, fetch_failed, strikes, round_nd,
                   chain_data, cdf_called, price_fmt, currency_fmt>>

---------------------------------------------------------------------------
(* main *)

VolModes == {"Manual", "Historica30d", "Historica90d"}

\* the sliders of the sidebar
IvSliderMin == 10
IvSliderDefault == 65
IvSliderMax == 200
DaysSliderMin == 1
DaysSliderDefault == 30
DaysSliderMax == 365
RateSliderDefault == 500
StrikesSliderMin == 5
StrikesSliderMax == 20

IvSlider == {IvSliderMin, IvSliderDefault, IvSliderMax}
DaysSlider == {DaysSliderMin, DaysSliderDefault, DaysSliderMax}
RateSlider == {0, RateSliderDefault}
StrikesSlider ==
    {n \in StrikesSliderMin..StrikesSliderMax : n <= StrikesSliderMin + StrikeRange}

\* the volatility main computes in each mode
MainVolatility(mode, slider, h) ==
    IF mode = "Manual" THEN Fin(SDiv(slider * ONE, 100))
    ELSE calculate_historical_volatility(h)

\* the sidebar: volatility mode and model parameters
Sidebar ==
    /\ pc = "sidebar"
    /\ \E mode \in VolModes, slider \in IvSlider, h \in HistOutcomes :
          /\ (mode = "Manual") => (h.kind = "exception" /\ slider \in IvSlider)
          /\ (mode # "Manual") => (slider = IvSliderDefault)
          /\ vol_mode' = mode
          /\ hist' = IF mode = "Manual" THEN NoHist ELSE h
          /\ iv' = MainVolatility(mode, slider, h)
    /\ days_to_expiry' \in DaysSlider
    /\ risk_free_rate' \in RateSlider
    /\ num_strikes' \in StrikesSlider
    /\ pc' = "fetch"
    /\ UNCHANGED <<caller, spot_price, fetch_failed, strikes, round_nd, chain_data,
                   option_chain, cdf_called, price_fmt, currency_fmt>>

\* spot_price, change_24h, volume = get_crypto_price(ticker)
FetchPrice ==
    /\ pc = "fetch"
    /\ \E o \in PriceOutcomes :
          /\ spot_price' = get_crypto_price(o)
          /\ fetch_failed' = (o.kind # "ok")
    /\ pc' = "check"
    /\ UNCHANGED <<caller, vol_mode, hist, iv, days_to_expiry, risk_free_rate,
                   num_strikes, strikes, round_nd, chain_data, option_chain,
                   cdf_called, price_fmt, currency_fmt>>

\* if spot_price is None
PriceMissingNever(sp) == FALSE
PriceMissing(sp) == sp = None

\* the guard after the fetch: return, or go on to the metrics
CheckPrice ==
    /\ pc = "check"
    /\ pc' = IF PriceMissing(spot_price) THEN "stopped" ELSE "metrics"
    /\ UNCHANGED <<caller, vol_mode, hist, iv, days_to_expiry, risk_free_rate,
                   num_strikes, spot_price, fetch_failed, strikes, round_nd,
                   chain_data, option_chain, cdf_called, price_fmt, currency_fmt>>

\* decimals of price_fmt
PriceFmtDecimals(sp) == IF SpotBelow10(sp) THEN 4 ELSE 2

\* the headline metrics, then the call of generate_option_chain
Metrics ==
    /\ pc = "metrics"
    /\ price_fmt' = PriceFmtDecimals(spot_price)
    /\ pc' = "gen_strikes"
    /\ UNCHANGED <<caller, vol_mode, hist, iv, days_to_expiry, risk_free_rate,
                   num_strikes, spot_price, fetch_failed, strikes, round_nd,
                   chain_data, option_chain, cdf_called, currency_fmt>>

\* decimals of currency_fmt in style_option_chain
CurrencyFmtDecimals(sp) == IF SpotAbove10(sp) THEN 2 ELSE 4

\* styled_chain = style_option_chain(option_chain, spot_price)
StyleChain ==
    /\ pc = "style"
    /\ currency_fmt' = CurrencyFmtDecimals(spot_price)
    /\ pc' = "done"
    /\ UNCHANGED <<caller, vol_mode, hist, iv, days_to_expiry, risk_free_rate,
                   num_strikes, spot_price, fetch_failed, strikes, round_nd,
                   chain_data, option_chain, cdf_called, price_fmt>>

\* the locals of main before the script runs
MainStart ==
    /\ pc = "sidebar"
    /\ caller = "main"
    /\ vol_mode = "unset"
    /\ hist = NoHist
    /\ iv = NaN
    /\ days_to_expiry = 0
    /\ risk_free_rate = 0
    /\ num_strikes = 0
    /\ spot_price = None
    /\ fetch_failed = FALSE
    /\ strikes = << >>
    /\ round_nd = 0
    /\ chain_data = << >>
    /\ option_chain = NoChain
    /\ cdf_called = FALSE
    /\ price_fmt = 0
    /\ currency_fmt = 0

\* Streamlit runs the script again on the next interaction
Rerun ==
    /\ pc \in {"done", "stopped"}
    /\ pc' = "sidebar"
    /\ vol_mode' = "unset"
    /\ hist' = NoHist
    /\ iv' = NaN
    /\ days_to_expiry' = 0
    /\ risk_free_rate' = 0
    /\ num_strikes' = 0
    /\ spot_price' = None
    /\ fetch_failed' = FALSE
    /\ strikes' = << >>
    /\ round_nd' = 0
    /\ chain_data' = << >>
    /\ option_chain' = NoChain
    /\ cdf_called' = FALSE
    /\ price_fmt' = 0
    /\ currency_fmt' = 0
    /\ UNCHANGED caller

Init == MainStart

Next ==
    \/ Sidebar
    \/ FetchPrice
    \/ CheckPrice
    \/ Metrics
    \/ BuildStrikes
    \/ PriceRow
    \/ ReturnChain
    \/ StyleChain
    \/ Rerun

Spec == Init /\ [][Next]_vars

---------------------------------------------------------------------------
(* generate_option_chain called on its own, on inputs from bounded sets *)

\* 0.0011, 1.23457 and 9.9999 besides the spots of main; on none of them does
\* a strike fall half-way between two roundings, where round() of the binary
\* float and of the decimal could differ
DirectSpots ==
    MainSpots \cup {Spot(11, 4), Spot(123457, 5), Spot(99999, 4)}
DirectVols == {NaN, Fin(0), Fin(6500), Fin(9000)}
DirectDays == {0, 7, 30}
DirectRates == {0, RateSliderDefault}

ChainInit ==
    /\ pc = "gen_strikes"
    /\ caller = "direct"
    /\ vol_mode = "unset"
    /\ hist = NoHist
    /\ iv \in DirectVols
    /\ days_to_expiry \in DirectDays
    /\ risk_free_rate \in DirectRates
    /\ num_strikes \in 1..MaxStrikes
    /\ spot_price \in DirectSpots
    /\ fetch_failed = FALSE
    /\ strikes = << >>
    /\ round_nd = 0
    /\ chain_data = << >>
    /\ option_chain = NoChain
    /\ cdf_called = FALSE
    /\ price_fmt = 0
    /\ currency_fmt = 0

ChainNext ==
    \/ BuildStrikes
    \/ PriceRow
    \/ ReturnChain

ChainSpec == ChainInit /\ [][ChainNext]_vars

---------------------------------------------------------------------------
(* Properties *)

Rows == 1..Len(chain_data)
Returned == pc = "returned"
StrikesBuilt == pc \in {"gen_rows", "returned"}

\* C1: for every spot > 0 and num_strikes = N > 0 (volatility and days
\* positive) the returned chain has exactly 2N+1 rows and its rounded strikes
\* are strictly ascending.
C1_GridAscendingCount ==
    (Returned /\ IsFinite(iv) /\ iv.v > 0 /\ days_to_expiry > 0) =>
        /\ Len(option_chain) = 2 * num_strikes + 1
        /\ \A k \in 1..(Len(option_chain) - 1) :
              option_chain[k].STRIKE < option_chain[k + 1].STRIKE

\* C2: in every row ITM_Call and ITM_Put are never both true; exactly one is
\* true when the rounded strike differs from spot, none when it equals spot.
C2_ItmExclusive ==
    \A k \in Rows :
        LET row == chain_data[k]
        IN  /\ ~(row.ITM_Call /\ row.ITM_Put)
            /\ (row.STRIKE # SpotUnits(spot_price)) => (row.ITM_Call # row.ITM_Put)
            /\ (row.STRIKE = SpotUnits(spot_price)) => (~row.ITM_Call /\ ~row.ITM_Put)

C2_Witness ==
    /\ Returned
    /\ \E k \in Rows : chain_data[k].STRIKE = SpotUnits(spot_price)
    /\ \E k \in Rows : chain_data[k].ITM_Call
    /\ \E k \in Rows : chain_data[k].ITM_Put

\* volatility <= 0 or timeToExpiry <= 0 (spot and strike are positive here)
InvalidInput == (IsFinite(iv) /\ iv.v <= 0) \/ days_to_expiry <= 0

\* C3: with volatility <= 0 or timeToExpiry <= 0 the generator fails before
\* any norm.cdf / norm.pdf evaluation and returns no prices or rows.
C3_InvalidInputRejected ==
    InvalidInput => (~cdf_called /\ chain_data = << >> /\ option_chain = NoChain)

\* the rounding quantum, in strike units, the claim gives for sp
ClaimedQuantum(sp) ==
    LET nd == IF sp.m < 10 * Pow10(sp.e) THEN 4 ELSE 2
    IN  IF sp.e + 3 <= nd THEN 1 ELSE Pow10(sp.e + 3 - nd)

\* C4: the i-th strike is spot + i * (spot * 0.025) rounded to 4 decimals
\* when spot < 10 and to 2 decimals otherwise: a multiple of the quantum
\* nearest to the exact value; spot=50000, N=2 and spot=1.50, N=1 give the
\* strikes of scenarios A and B.
C4_StrikeFormula ==
    StrikesBuilt =>
        /\ Len(strikes) = 2 * num_strikes + 1
        /\ \A i \in (-num_strikes)..num_strikes :
              LET exact == spot_price.m * 1000 + i * (spot_price.m * 25)
                  K     == strikes[i + num_strikes + 1]
              IN  /\ K % ClaimedQuantum(spot_price) = 0
                  /\ 2 * Abs(K - exact) <= ClaimedQuantum(spot_price)
        /\ (spot_price = Spot(50000, 0) /\ num_strikes = 2) =>
              strikes = <<47500000, 48750000, 50000000, 51250000, 52500000>>
        /\ (spot_price = Spot(15, 1) /\ num_strikes = 1) =>
              strikes = <<14625, 15000, 15375>>

C4_Witness ==
    /\ Returned
    /\ spot_price = Spot(1234, 2)
    /\ \E i \in 1..Len(strikes) :
          strikes[i] # spot_price.m * 1000 + (i - num_strikes - 1) * (spot_price.m * 25)

\* C5: in main the chain generator is never invoked when the spot-price
\* source fails: the run stops at the guard, with no strikes, rows or table.
C5_NoChainWithoutPrice ==
    fetch_failed =>
        /\ pc \in {"check", "stopped"}
        /\ strikes = << >>
        /\ chain_data = << >>
        /\ option_chain = NoChain
        /\ ~cdf_called

C5_Witness == fetch_failed /\ pc = "stopped"

\* C6: the volatility main passes to generate_option_chain is strictly
\* positive, and days_to_expiry > 0, in every volatility mode.
C6_VolatilityPositive ==
    (caller = "main" /\ pc \in {"gen_strikes", "gen_rows", "style", "done"}) =>
        /\ IsFinite(iv)
        /\ iv.v > 0
        /\ days_to_expiry > 0

RowFinite(row) ==
    /\ IsFinite(row.Call_Price) /\ IsFinite(row.Call_Delta) /\ IsFinite(row.Call_Prob)
    /\ IsFinite(row.Put_Price) /\ IsFinite(row.Put_Delta) /\ IsFinite(row.Put_Prob)
    /\ IsFinite(row.Gamma)

\* C7: generate_option_chain returns the full chain of 2N+1 rows with every
\* numeric field finite, or no rows at all; never NaN/Inf rows or a prefix.
C7_AllOrNothing ==
    Returned =>
        \/ option_chain = NoChain
        \/ /\ Len(option_chain) = 2 * num_strikes + 1
           /\ \A k \in 1..Len(option_chain) : RowFinite(option_chain[k])

ValidInput == IsFinite(iv) /\ iv.v > 0 /\ days_to_expiry > 0

\* C8: for valid inputs, in every row 0 <= Call Delta <= 1, -1 <= Put Delta
\* <= 0, Call Delta - Put Delta = 1, and the two Prob. ITM are |delta|*100,
\* lie in [0,100] and sum to 100.
C8_DeltaBounds ==
    ValidInput =>
        \A k \in Rows :
            LET row == chain_data[k]
            IN  /\ IsFinite(row.Call_Delta) /\ IsFinite(row.Put_Delta)
                /\ 0 <= row.Call_Delta.v /\ row.Call_Delta.v <= ONE
                /\ -ONE <= row.Put_Delta.v /\ row.Put_Delta.v <= 0
                /\ row.Call_Delta.v - row.Put_Delta.v = ONE
                /\ row.Call_Prob = Fin(100 * Abs(row.Call_Delta.v))
                /\ row.Put_Prob = Fin(100 * Abs(row.Put_Delta.v))
                /\ 0 <= row.Call_Prob.v /\ row.Call_Prob.v <= 100 * ONE
                /\ 0 <= row.Put_Prob.v /\ row.Put_Prob.v <= 100 * ONE
                /\ row.Call_Prob.v + row.Put_Prob.v = 100 * ONE

C8_Witness ==
    /\ Returned
    /\ ValidInput
    /\ \E k \in Rows : /\ chain_data[k].Call_Delta.v > 0
                       /\ chain_data[k].Call_Delta.v < ONE
                       /\ chain_data[k].STRIKE # SpotUnits(spot_price)

\* C9: the table format of style_option_chain, the headline format of main
\* and the strike rounding of generate_option_chain use the same number of
\* decimals for the same spot: 4 if spot < 10, else 2.
C9_FormatsAgree ==
    pc = "done" =>
        /\ currency_fmt = price_fmt
        /\ price_fmt = round_nd
        /\ round_nd = (IF spot_price.m < 10 * Pow10(spot_price.e) THEN 4 ELSE 2)

===========================================================================
